---------------------------- MODULE Spec2Model ----------------------------
(***************************************************************************)
(* The clustering pipeline of spikeinterface's sortingcomponents:          *)
(* CircusClustering.main_function (clustering/circus.py) and               *)
(* RandomProjectionClustering.main_function                                *)
(* (clustering/random_projections.py), followed by the relabelling that    *)
(* Spykingcircus2Sorter._run_from_folder applies to the returned           *)
(* (labels, peak_labels) pair.                                             *)
(*                                                                         *)
(* A peak is modelled by its channel_index.  The numerical content of a    *)
(* template is abstracted to the two quantities the pruning code reads:    *)
(* the best-channel amplitude-to-noise ratio at nbefore and the number of  *)
(* active channels of its sparsity mask.  hdbscan, TruncatedSVD and the    *)
(* recording are the environment; what they return is chosen with \E.      *)
(***************************************************************************)
EXTENDS Integers, Sequences, FiniteSets, TLC

\* ------------------------------------------------------------------ bounds
\* Longest peak array handed to CircusClustering.main_function.
MaxPeaksCircus == 3

\* Longest peak array handed to RandomProjectionClustering.main_function.
MaxPeaksRP == 4

\* Number of recording channels (channel_index ranges over 0..NumChans-1).
NumChans == 2

\* ------------------------------------------------------- program constants
\* RandomProjectionClustering._default_params["noise_threshold"].
noise_threshold == 4

\* ----------------------------------------------------------------- helpers
Channels == 0 .. (NumChans - 1)

Methods == {"circus", "random_projections"}

\* Best-channel ratios estimate_templates can yield: one below and one above
\* noise_threshold.
Ratios == {noise_threshold - 1, noise_threshold + 1}

\* Number of active channels a sparsity mask can have: none, or some.
ActiveCounts == {0, 1}

Range(s) == {s[i] : i \in DOMAIN s}

RECURSIVE SortedSeq(_)
\* np.unique: the sorted sequence of the distinct values.
SortedSeq(S) ==
    IF S = {} THEN << >>
    ELSE LET m == CHOOSE x \in S : \A y \in S : x <= y
         IN  <<m>> \o SortedSeq(S \ {m})

np_unique(s) == SortedSeq(Range(s))

\* np.arange(k): 0, 1, ..., k-1.
np_arange(k) == [i \in 1 .. k |-> i - 1]

\* a[mask] for a boolean mask given as the set of positions where it holds.
Masked(s, mask) ==
    LET F[i \in 0 .. Len(s)] ==
            IF i = 0 THEN << >>
            ELSE IF i \in mask THEN Append(F[i - 1], s[i]) ELSE F[i - 1]
    IN  F[Len(s)]

MaxOf(S) == CHOOSE x \in S : \A y \in S : y <= x

\* What hdbscan.hdbscan returns as labels for n >= 1 points: -1 for noise,
\* otherwise the clusters 0..k-1, every one of them used.  The clusters are
\* numbered here in the order of their first point, and a cluster may hold
\* a single peak (one peak stands for min_cluster_size of them).
Labellings(n) ==
    {l \in [1 .. n -> -1 .. (n - 1)] :
        \A i \in 1 .. n :
            l[i] <= 1 + MaxOf({-1} \cup {l[j] : j \in 1 .. (i - 1)})}


\* ------------------------------------------------------------------- state
VARIABLES
    method,        \* the clustering method find_cluster_from_peaks dispatches to
    pc,            \* position in main_function / _run_from_folder
    peaks,         \* peaks["channel_index"], one entry per peak
    peak_labels,   \* the peak label array
    nb_clusters,   \* circus: running global offset of the per-channel loop
    todo,          \* circus: channels of np.unique(...) still to iterate over
    local,         \* history: the local label hdbscan gave each peak
    iterations,    \* history: one record per iteration of the circus loop
    labels,        \* labels (before and after remove_duplicates_via_matching)
    spikes,        \* spikes["unit_index"] given to estimate_templates
    unit_ids,      \* unit_ids given to estimate_templates
    templates,     \* the current template set, one record per unit
    removed,       \* history: unit ids dropped from the template set by pruning
    dedup_in,      \* history: arguments of remove_duplicates_via_matching
    stages,        \* history: the stages run so far, in order
    unit_index,    \* sorter: labeled_peaks["unit_index"]
    sorter_unit_ids \* sorter: unit_ids of the sorting and of its templates

\* The state of one clustering call and of the sorter's relabelling.
clusteringVars == <<method, pc, peaks, peak_labels, nb_clusters, todo, local,
                    iterations, labels, spikes, unit_ids, templates, removed,
                    dedup_in, stages, unit_index, sorter_unit_ids>>

\* One call of main_function or _run_from_folder seen from outside: what it
\* was given, where it stands, and what it has done to the file system and
\* the recording so far.
VARIABLES
    entry,             \* the function called
    HAVE_HDBSCAN,      \* whether "import hdbscan" succeeded
    params,            \* the params dictionary of the call
    fs,                \* recording.get_sampling_frequency(), in kHz
    cpc,               \* index of the next statement block of the function
    outcome,           \* "running", "returned", or the exception raised
    effects,           \* history: the external effects so far, in order
    defined,           \* the local names bound so far
    nbefore,           \* the local nbefore (NotBound before line 91 / 71 / 186)
    nafter,            \* the local nafter
    num_samples,       \* history: the values nbefore + nafter has taken
    clustering_method  \* sorter: the method tag given to find_cluster_from_peaks

callVars == <<entry, HAVE_HDBSCAN, params, fs, cpc, outcome, effects, defined,
              nbefore, nafter, num_samples, clustering_method>>

\* remove_duplicates_via_matching applied twice to one input.
VARIABLES
    merges,            \* the merges the matching pass decides for the templates
    first              \* what the first application returned

dedupVars == <<merges, first>>

\* One call of run_sorter_jobs and the jobs it starts.
VARIABLES
    job_list,          \* the job dictionaries, here their "with_output" entry
    engine,            \* the engine argument
    return_output,     \* the return_output argument
    jpc,               \* position in run_sorter_jobs
    jobs_out,          \* the local out: None, or the list of sortings so far
    futures,           \* the jobs handed to the engine, in submission order
    finished,          \* the results of the jobs whose run_sorter has ended
    waited,            \* number of job results run_sorter_jobs has taken
    engine_kwargs,     \* the engine_kwargs argument of run_sorter_jobs
    ran                \* history: with_output of each job when it was started

jobVars == <<job_list, engine, return_output, jpc, jobs_out, futures, finished,
             waited, engine_kwargs, ran>>

\* One call of run_sorter, run_one_sorter, run_sorter_local or
\* run_sorter_container (runsorter.py).
VARIABLES
    fn,                \* the function called
    rargs,             \* its arguments
    rpc,               \* the function whose body is being executed
    ri,                \* index of the next step of that body
    mode,              \* run_one_sorter / run_sorter_container: the container mode
    calls,             \* history: the calls made so far, in order
    sorting,           \* the local sorting: unbound, None, or where its data is
    sorter_output,     \* whether folder / "sorter_output" exists
    observed,          \* history: what the container run left behind
    routcome           \* "running", "returned", or the exception raised

runVars == <<fn, rargs, rpc, ri, mode, calls, sorting, sorter_output, observed,
             routcome>>

vars == <<clusteringVars, callVars, dedupVars, jobVars, runVars>>

\* What an action of one of the state machines leaves alone.
outsideClustering == <<callVars, dedupVars, jobVars, runVars>>

outsideCall == <<clusteringVars, dedupVars, jobVars, runVars>>

outsideJobs == <<clusteringVars, callVars, dedupVars, runVars>>

outsideRun == <<clusteringVars, callVars, dedupVars, jobVars>>

\* local[i] before hdbscan has labelled peak i, or when its call raised.
NoLabel == -2

\* The statement blocks with deduplication placed before pruning.
StageOrderSwapped == <<"start", "features", "cluster", "spikes", "estimate",
                       "dedup", "prune", "done">>

\* The statement blocks of main_function in source order: "start" is the code
\* up to run_node_pipeline, "spikes" builds labels, spikes and unit_ids.
StageOrder == <<"start", "features", "cluster", "spikes", "estimate",
                "prune", "dedup", "done">>

\* The statement block that follows block p.
NextPc(p) ==
    LET i == CHOOSE k \in 1 .. Len(StageOrder) : StageOrder[k] = p
    IN  StageOrder[i + 1]

\* The peak arrays main_function is called with.  random_projections
\* clusters all peaks in one call and never reads channel_index, so its
\* peaks are all put on channel 0.
PeakArrays(m) ==
    IF m = "circus"
    THEN UNION {[1 .. n -> Channels] : n \in 0 .. MaxPeaksCircus}
    ELSE UNION {[1 .. n -> {0}] : n \in 0 .. MaxPeaksRP}

\* nbefore and nafter before their first assignment.
NotBound == -1

\* The call-level variables while the call is followed statement by
\* statement through clusteringVars instead.
NoCall ==
    /\ entry = "none" /\ HAVE_HDBSCAN = TRUE /\ params = << >> /\ fs = 0
    /\ cpc = 0 /\ outcome = "running" /\ effects = << >> /\ defined = {}
    /\ nbefore = NotBound /\ nafter = NotBound /\ num_samples = {}
    /\ clustering_method = "none"

\* None as the value of out.
None == [none |-> TRUE, items |-> << >>]

\* The variables of run_sorter_jobs while no call of it is followed.
NoJobs ==
    /\ job_list = << >> /\ engine = "none" /\ return_output = FALSE
    /\ jpc = "none" /\ jobs_out = None /\ futures = << >> /\ finished = {}
    /\ waited = 0 /\ engine_kwargs = {} /\ ran = << >>

\* No second application of remove_duplicates_via_matching is followed.
NoSecondDedup == merges = << >> /\ first = << >>

\* What the container run left behind, before it has been looked at.
NotObserved == [log |-> "none", from_folder |-> "none", from_container |-> "none"]

\* The variables of runsorter.py while no call of its functions is followed.
NoRun ==
    /\ fn = "none" /\ rargs = << >> /\ rpc = "none" /\ ri = 0
    /\ mode = "none" /\ calls = << >> /\ sorting = "unbound"
    /\ sorter_output = FALSE /\ observed = NotObserved
    /\ routcome = "running"

Init ==
    /\ NoCall
    /\ NoJobs
    /\ NoSecondDedup
    /\ NoRun
    /\ method \in Methods
    /\ pc = "start"
    /\ peaks \in PeakArrays(method)
    /\ peak_labels = << >>
    /\ nb_clusters = 0
    /\ todo = << >>
    /\ local = [i \in 1 .. Len(peaks) |-> NoLabel]
    /\ iterations = << >>
    /\ labels = << >>
    /\ spikes = << >>
    /\ unit_ids = << >>
    /\ templates = << >>
    /\ removed = {}
    /\ dedup_in = << >>
    /\ stages = << >>
    /\ unit_index = << >>
    /\ sorter_unit_ids = << >>

\* ------------------------------------------------- circus: lines 71 - 175
\* Lines 71-129: parameters, tmp folder, and the SVD fitted on the waveforms
\* of select_peaks(peaks).  TruncatedSVD.fit rejects an array of 0 samples
\* (sklearn's check_array requires at least one), so an empty peak array
\* raises here.
CircusFitSVD ==
    /\ method = "circus" /\ pc = "start"
    /\ pc' = IF Len(peaks) = 0 THEN "raised" ELSE NextPc(pc)
    /\ stages' = Append(stages, "start")
    /\ UNCHANGED <<method, peaks, peak_labels, nb_clusters, todo, local,
                   iterations, labels, spikes, unit_ids, templates, removed,
                   dedup_in, unit_index, sorter_unit_ids>>
    /\ UNCHANGED outsideClustering

\* Lines 131-160: run_node_pipeline extracts the features; peak_labels is
\* initialised to -1 and the loop is set up over np.unique(channel_index).
CircusFeatures ==
    /\ method = "circus" /\ pc = "features"
    /\ peak_labels' = [i \in 1 .. Len(peaks) |-> -1]
    /\ nb_clusters' = 0
    /\ todo' = np_unique(peaks)
    /\ pc' = NextPc(pc)
    /\ stages' = Append(stages, "features")
    /\ UNCHANGED <<method, peaks, local, iterations, labels, spikes, unit_ids,
                   templates, removed, dedup_in, unit_index, sorter_unit_ids>>
    /\ UNCHANGED outsideClustering

\* Position of peak i among the peaks of its own channel (1-based): the row
\* of all_pc_data[mask] that peak i contributes.
RankInChannel(i) == Cardinality({j \in 1 .. i : peaks[j] = peaks[i]})

\* Lines 168-170: local_labels = np.zeros(len(hdbscan_data)).
ExceptLabels(n) == [k \in 1 .. n |-> 0]

\* The local labels of a channel kept as hdbscan numbered them.
KeepLocalNumbers(l, nb) == l

\* Lines 171-175: local_labels[valid_clusters] += nb_clusters.
Renumber(l, nb) == [k \in DOMAIN l |-> IF l[k] > -1 THEN l[k] + nb ELSE l[k]]

\* Line 175 counting the labelled peaks instead of the distinct labels.
CountLabelledPeaks(l) == Cardinality({k \in DOMAIN l : l[k] > -1})

\* Line 175: len(np.unique(local_labels[valid_clusters])).
CountLocalClusters(l) == Cardinality({l[k] : k \in {q \in DOMAIN l : l[q] > -1}})

\* One iteration of the loop of lines 160-175, for channel c = todo[1].
\* hdbscan either returns a labelling of the channel's peaks or raises.
CircusClusterChannel ==
    /\ method = "circus" /\ pc = "cluster" /\ todo # << >>
    /\ LET c == Head(todo)
           n == Cardinality({i \in 1 .. Len(peaks) : peaks[i] = c})
       IN  \E raised \in BOOLEAN :
           \E out \in IF raised THEN {ExceptLabels(n)} ELSE Labellings(n) :
             LET valid_clusters == {k \in 1 .. n : out[k] > -1}
                 local_labels == Renumber(out, nb_clusters)
                 found == valid_clusters # {}
             IN  /\ peak_labels' =
                        [i \in 1 .. Len(peaks) |->
                            IF found /\ peaks[i] = c
                            THEN local_labels[RankInChannel(i)]
                            ELSE peak_labels[i]]
                 /\ nb_clusters' =
                        IF found
                        THEN nb_clusters + CountLocalClusters(local_labels)
                        ELSE nb_clusters
                 /\ local' =
                        [i \in 1 .. Len(peaks) |->
                            IF peaks[i] = c /\ ~raised
                            THEN out[RankInChannel(i)] ELSE local[i]]
                 /\ iterations' =
                        Append(iterations,
                               [channel |-> c, raised |-> raised,
                                nb_before |-> nb_clusters,
                                nb_after |-> nb_clusters'])
    /\ todo' = Tail(todo)
    /\ stages' = Append(stages, "cluster")
    /\ UNCHANGED <<method, pc, peaks, labels, spikes, unit_ids, templates,
                   removed, dedup_in, unit_index, sorter_unit_ids>>
    /\ UNCHANGED outsideClustering

\* The loop of lines 160-175 is exhausted.
CircusClusterDone ==
    /\ method = "circus" /\ pc = "cluster" /\ todo = << >>
    /\ pc' = NextPc(pc)
    /\ UNCHANGED <<method, peaks, peak_labels, nb_clusters, todo, local,
                   iterations, labels, spikes, unit_ids, templates, removed,
                   dedup_in, stages, unit_index, sorter_unit_ids>>
    /\ UNCHANGED outsideClustering

\* ---------------------------------- random_projections: lines 64 - 118
\* Lines 64-111: parameters, the projection matrix, the pipeline nodes.
RPStart ==
    /\ method = "random_projections" /\ pc = "start"
    /\ pc' = NextPc(pc)
    /\ stages' = Append(stages, "start")
    /\ UNCHANGED <<method, peaks, peak_labels, nb_clusters, todo, local,
                   iterations, labels, spikes, unit_ids, templates, removed,
                   dedup_in, unit_index, sorter_unit_ids>>
    /\ UNCHANGED outsideClustering

\* Lines 113-115: run_node_pipeline extracts the features of every peak.
RPFeatures ==
    /\ method = "random_projections" /\ pc = "features"
    /\ pc' = NextPc(pc)
    /\ stages' = Append(stages, "features")
    /\ UNCHANGED <<method, peaks, peak_labels, nb_clusters, todo, local,
                   iterations, labels, spikes, unit_ids, templates, removed,
                   dedup_in, unit_index, sorter_unit_ids>>
    /\ UNCHANGED outsideClustering

\* Lines 117-118: one global hdbscan call, not guarded by try/except.
\* hdbscan rejects an array of 0 samples (check_array), and may raise on
\* other input as the except clause of circus.py anticipates.
RPCluster ==
    /\ method = "random_projections" /\ pc = "cluster"
    /\ stages' = Append(stages, "cluster")
    /\ \E raised \in BOOLEAN :
         IF raised \/ Len(peaks) = 0
         THEN /\ pc' = "raised"
              /\ UNCHANGED <<peak_labels, local>>
         ELSE /\ \E out \in Labellings(Len(peaks)) :
                    /\ peak_labels' = out
                    /\ local' = out
              /\ pc' = NextPc(pc)
    /\ UNCHANGED <<method, peaks, nb_clusters, todo, iterations, labels,
                   spikes, unit_ids, templates, removed, dedup_in, unit_index,
                   sorter_unit_ids>>
    /\ UNCHANGED outsideClustering

\* ------------------------------------ both methods: spikes and templates
\* circus.py lines 177-186, random_projections.py lines 120-129.
BuildSpikes ==
    /\ pc = "spikes"
    /\ labels' = SortedSeq({l \in Range(peak_labels) : l >= 0})
    /\ spikes' = Masked(peak_labels, {i \in DOMAIN peak_labels : peak_labels[i] > -1})
    /\ unit_ids' = np_arange(Cardinality(Range(spikes')))
    /\ pc' = NextPc(pc)
    /\ UNCHANGED <<method, peaks, peak_labels, nb_clusters, todo, local,
                   iterations, templates, removed, dedup_in, stages,
                   unit_index, sorter_unit_ids>>
    /\ UNCHANGED outsideClustering

\* circus.py lines 188-197, random_projections.py lines 131-146:
\* estimate_templates yields one template per entry of unit_ids; its
\* best-channel amplitude-to-noise ratio is whatever the recording gives.
\* A dense template has every channel active.
EstimateTemplates ==
    /\ pc = "estimate"
    /\ \E r \in [1 .. Len(unit_ids) -> Ratios] :
         templates' = [k \in 1 .. Len(unit_ids) |->
                          [unit_id |-> unit_ids[k], ratio |-> r[k],
                           nactive |-> NumChans]]
    /\ pc' = NextPc(pc)
    /\ stages' = Append(stages, "estimate")
    /\ UNCHANGED <<method, peaks, peak_labels, nb_clusters, todo, local,
                   iterations, labels, spikes, unit_ids, removed, dedup_in,
                   unit_index, sorter_unit_ids>>
    /\ UNCHANGED outsideClustering

\* ---------------------------------------------------- sparsity / pruning
\* templates.to_sparse(compute_sparsity(...)): each template gets the mask
\* the sparsity rule computes for it, here its number of active channels.
ToSparse(T, a) ==
    [p \in 1 .. Len(T) |-> [T[p] EXCEPT !.nactive = a[p]]]

\* sortingcomponents.tools.remove_empty_templates: keeps the units whose
\* sparsity mask has at least one active channel.
remove_empty_templates(T) == SelectSeq(T, LAMBDA t : t.nactive > 0)

UnitIdsOf(T) == {T[p].unit_id : p \in 1 .. Len(T)}

\* circus.py lines 198-202.  peak_labels is not touched.
CircusPrune ==
    /\ method = "circus" /\ pc = "prune"
    /\ \E a \in [1 .. Len(templates) -> ActiveCounts] :
         templates' = remove_empty_templates(ToSparse(templates, a))
    /\ removed' = UnitIdsOf(templates) \ UnitIdsOf(templates')
    /\ pc' = NextPc(pc)
    /\ stages' = Append(stages, "prune")
    /\ UNCHANGED <<method, peaks, peak_labels, nb_clusters, todo, local,
                   iterations, labels, spikes, unit_ids, dedup_in, unit_index,
                   sorter_unit_ids>>
    /\ UNCHANGED outsideClustering

\* random_projections.py lines 148-151: valid_templates, as the set of rows
\* of templates_array whose best_snrs_ratio exceeds noise_threshold.
ValidTemplates(T) == {k \in 1 .. Len(T) : T[k].ratio > noise_threshold}

\* random_projections.py lines 166-173.  empty_templates is a mask over the
\* rows of the filtered template set and np.where gives row numbers (from
\* 0); valid_templates is a mask over the rows of templates_array.
ResetLabels(pl, T, valid, filtered, a) ==
    LET empty_rows == {p - 1 : p \in {q \in 1 .. Len(filtered) : a[q] = 0}}
        invalid_rows == {k - 1 : k \in (1 .. Len(T)) \ valid}
        pl1 == [i \in DOMAIN pl |-> IF pl[i] \in empty_rows THEN -1 ELSE pl[i]]
    IN  [i \in DOMAIN pl |-> IF pl1[i] \in invalid_rows THEN -1 ELSE pl1[i]]

\* random_projections.py lines 148-173.
RPPrune ==
    /\ method = "random_projections" /\ pc = "prune"
    /\ LET valid == ValidTemplates(templates)
           filtered == Masked(templates, valid)
       IN  \E a \in [1 .. Len(filtered) -> ActiveCounts] :
             /\ templates' = remove_empty_templates(ToSparse(filtered, a))
             /\ peak_labels' = ResetLabels(peak_labels, templates, valid, filtered, a)
    /\ removed' = UnitIdsOf(templates) \ UnitIdsOf(templates')
    /\ pc' = NextPc(pc)
    /\ stages' = Append(stages, "prune")
    /\ UNCHANGED <<method, peaks, nb_clusters, todo, local, iterations, labels,
                   spikes, unit_ids, dedup_in, unit_index, sorter_unit_ids>>
    /\ UNCHANGED outsideClustering

\* ------------------------------------------------------- deduplication
\* Merges that may redirect a unit to a unit that is itself discarded.
MergeMapsChained(T) == [UnitIdsOf(T) -> UnitIdsOf(T) \cup {-1}]

\* The merges a matching pass can decide on for the template set T: a unit
\* is kept (m[u] = u), merged into a kept unit, or dropped with no survivor
\* matched (m[u] = -1).
MergeMaps(T) ==
    UNION {{[u \in UnitIdsOf(T) |-> IF u \in S THEN u ELSE g[u]] :
                g \in [UnitIdsOf(T) \ S -> S \cup {-1}]} :
           S \in SUBSET UnitIdsOf(T)}

\* The peak labels after the merges m: the labels of a discarded unit are
\* redirected to its survivor, or set to -1 where none was matched; a label
\* that names no template of T is left as it is.
Redirect(T, pl, m) ==
    [i \in DOMAIN pl |-> IF pl[i] \in UnitIdsOf(T) THEN m[pl[i]] ELSE pl[i]]

\* remove_duplicates_via_matching returning as labels the units of the
\* template set that were kept, whatever the peak labels are.
remove_duplicates_keeping_templates(T, pl, m) ==
    [labels |-> SortedSeq({u \in UnitIdsOf(T) : m[u] = u}),
     peak_labels |-> Redirect(T, pl, m)]

\* clustering_tools.remove_duplicates_via_matching(templates, peak_labels):
\* peak_labels keeps its length and is updated with the merges; labels are
\* the sorted unique unit indices that survive in it.
remove_duplicates_via_matching(T, pl, m) ==
    [labels |-> SortedSeq({l \in Range(Redirect(T, pl, m)) : l >= 0}),
     peak_labels |-> Redirect(T, pl, m)]

\* circus.py lines 204-221, random_projections.py lines 175-184.
Dedup ==
    /\ pc = "dedup"
    /\ dedup_in' = [templates |-> templates, peak_labels |-> peak_labels]
    /\ \E m \in MergeMaps(templates) :
         LET out == remove_duplicates_via_matching(templates, peak_labels, m)
         IN  /\ labels' = out.labels
             /\ peak_labels' = out.peak_labels
    /\ pc' = NextPc(pc)
    /\ stages' = Append(stages, "dedup")
    /\ UNCHANGED <<method, peaks, nb_clusters, todo, local, iterations, spikes,
                   unit_ids, templates, removed, unit_index, sorter_unit_ids>>
    /\ UNCHANGED outsideClustering

\* -------------------------------- spyking_circus2.py: lines 272 - 286
\* Position of label l in labels, counted from 1.
CountFromOne(l) == CHOOSE k \in 1 .. Len(labels) : labels[k] = l

\* Position (from 0) of label l in labels.
CountOf(l) == (CHOOSE k \in 1 .. Len(labels) : labels[k] = l) - 1

\* Lines 276-285: labeled_peaks["unit_index"] starts as zeros and is set to
\* count for the peaks whose label is labels[count]; unit_ids is an arange
\* over the number of distinct unit_index values.
SorterRelabel ==
    /\ pc = "done"
    /\ LET labeled == Masked(peak_labels, {i \in DOMAIN peak_labels : peak_labels[i] > -1})
       IN  unit_index' = [j \in 1 .. Len(labeled) |->
                             IF labeled[j] \in Range(labels)
                             THEN CountOf(labeled[j]) ELSE 0]
    /\ sorter_unit_ids' = np_arange(Cardinality(Range(unit_index')))
    /\ pc' = "sorted"
    /\ UNCHANGED <<method, peaks, peak_labels, nb_clusters, todo, local,
                   iterations, labels, spikes, unit_ids, templates, removed,
                   dedup_in, stages>>
    /\ UNCHANGED outsideClustering

\* find_cluster_from_peaks called directly: main_function of either method,
\* from its entry to its return or raise.
Next ==
    \/ CircusFitSVD
    \/ CircusFeatures
    \/ CircusClusterChannel
    \/ CircusClusterDone
    \/ RPStart
    \/ RPFeatures
    \/ RPCluster
    \/ BuildSpikes
    \/ EstimateTemplates
    \/ CircusPrune
    \/ RPPrune
    \/ Dedup

Spec == Init /\ [][Next]_vars

\* The same call made by Spykingcircus2Sorter._run_from_folder (line 272),
\* which goes on with the returned (labels, peak_labels).
NextSorter ==
    \/ Next
    \/ SorterRelabel

SpecSorter == Init /\ [][NextSorter]_vars

\* ============================================================ one call,
\* seen from outside: CircusClustering.main_function,
\* RandomProjectionClustering.main_function, and
\* Spykingcircus2Sorter._run_from_folder.  Each function is the sequence of
\* its statement blocks; a block has a kind (what it decides), the external
\* effects it has, the local names it reads and binds, and the condition
\* under which it runs.
\* ------------------------------------------------------------------ bounds
\* Largest ms_before / ms_after, in half milliseconds.
MaxHalfMs == 4

\* Largest sampling frequency, in kHz.
MaxKHz == 3

\* --------------------------------------------------------------- helpers
\* ms_before and ms_after are counted in steps of 1/MsDen millisecond.
MsDen == 2

MsValues == 1 .. MaxHalfMs

FsValues == 1 .. MaxKHz

\* int(x) applied to the non-negative quotient num / den.
int(num, den) == num \div den

\* round(x) of Python 3 applied to the quotient num / den: to the nearest
\* integer, a tie to the even one.
round(num, den) ==
    LET q == num \div den
        r == num % den
    IN  IF 2 * r < den THEN q
        ELSE IF 2 * r > den THEN q + 1
        ELSE IF q % 2 = 0 THEN q ELSE q + 1

\* int(ms * fs / 1000.0) for ms = h / MsDen milliseconds and fs = k kHz.
SampleCount(h, k) == int(h * k, MsDen)

Effect(kind, what) == [kind |-> kind, what |-> what]

Block(kind, lines, effs, reads, binds, when) ==
    [kind |-> kind, lines |-> lines, effects |-> effs, reads |-> reads,
     binds |-> binds, when |-> when]

\* circus.py, CircusClustering.main_function, lines 71-226.
CircusBody == <<
    Block("assert_hdbscan", <<71, 71>>, << >>, {}, {}, "always"),
    Block("window", <<73, 95>>,
          << >>, {}, {"fs", "nbefore", "nafter"}, "always"),
    Block("plain", <<97, 103>>,
          <<Effect("mkdir", "tmp_folder")>>, {}, {"tmp_folder"}, "always"),
    Block("plain", <<106, 110>>,
          <<Effect("chunked", "extract_waveform_at_max_channel")>>,
          {}, {"few_wfs"}, "always"),
    Block("external", <<112, 114>>, << >>, {"few_wfs"}, {"tsvd"}, "always"),
    Block("plain", <<116, 120>>,
          <<Effect("mkdir", "tsvd_model"), Effect("write", "pca_model.pkl")>>,
          {"tmp_folder", "tsvd"}, {"model_folder"}, "always"),
    Block("plain", <<122, 129>>,
          <<Effect("write", "params.json")>>, {"model_folder", "fs"}, {},
          "always"),
    Block("plain", <<131, 156>>,
          <<Effect("open", "tsvd_model"),
            Effect("chunked", "run_node_pipeline")>>,
          {"model_folder"}, {"all_pc_data"}, "always"),
    Block("plain", <<158, 186>>,
          <<Effect("cluster", "hdbscan")>>, {"all_pc_data"},
          {"peak_labels", "labels", "spikes", "unit_ids"}, "always"),
    Block("waveforms_window", <<188, 189>>,
          << >>, {"fs"}, {"nbefore", "nafter"}, "always"),
    Block("plain", <<191, 197>>,
          <<Effect("chunked", "estimate_templates")>>,
          {"spikes", "unit_ids", "nbefore", "nafter"}, {"templates"},
          "always"),
    Block("sparsity", <<198, 202>>,
          <<Effect("chunked", "get_noise_levels")>>, {"templates"},
          {"templates"}, "always"),
    Block("plain", <<204, 226>>,
          <<Effect("chunked", "remove_duplicates_via_matching")>>,
          {"templates", "peak_labels", "tmp_folder"},
          {"labels", "peak_labels"}, "always") >>

\* random_projections.py, RandomProjectionClustering.main_function,
\* lines 64-189.
RPBody == <<
    Block("assert_hdbscan", <<64, 64>>, << >>, {}, {}, "always"),
    Block("window", <<66, 111>>,
          << >>, {}, {"fs", "nbefore", "nafter", "projections"}, "always"),
    Block("plain", <<113, 115>>,
          <<Effect("chunked", "run_node_pipeline")>>, {"projections"},
          {"hdbscan_data"}, "always"),
    Block("external", <<117, 118>>,
          <<Effect("cluster", "hdbscan")>>, {"hdbscan_data"},
          {"peak_labels"}, "always"),
    Block("plain", <<120, 129>>, << >>, {"peak_labels"},
          {"labels", "spikes", "unit_ids"}, "always"),
    Block("waveforms_window", <<131, 132>>,
          << >>, {"fs"}, {"nbefore", "nafter"}, "always"),
    Block("plain", <<134, 135>>,
          <<Effect("chunked", "get_noise_levels")>>, {}, {}, "always"),
    Block("plain", <<137, 162>>,
          <<Effect("chunked", "estimate_templates")>>,
          {"spikes", "unit_ids", "nbefore", "nafter"}, {"templates"},
          "always"),
    Block("sparsity", <<164, 173>>, << >>, {"templates", "peak_labels"},
          {"templates", "peak_labels"}, "always"),
    Block("plain", <<175, 189>>,
          <<Effect("chunked", "remove_duplicates_via_matching")>>,
          {"templates", "peak_labels"}, {"labels", "peak_labels"},
          "always") >>

\* spyking_circus2.py, Spykingcircus2Sorter._run_from_folder, lines 93-386.
SorterBody == <<
    Block("assert_hdbscan", <<93, 100>>, << >>, {}, {}, "always"),
    Block("plain", <<102, 127>>,
          <<Effect("load", "load_recording_from_folder")>>, {},
          {"recording"}, "always"),
    Block("plain", <<129, 176>>,
          <<Effect("chunked", "get_noise_levels"),
            Effect("write", "preprocessed_recording.json")>>,
          {"recording"}, {"recording_w", "noise_levels", "motion_folder"},
          "always"),
    Block("window", <<178, 196>>,
          << >>, {"recording_w"}, {"fs", "nbefore", "nafter"}, "always"),
    Block("plain", <<198, 229>>,
          <<Effect("chunked", "detect_peaks")>>, {"recording_w"}, {"peaks"},
          "always"),
    Block("external", <<231, 232>>, << >>, {"peaks", "recording_w"},
          {"sorting"}, "multi_units_only"),
    Block("plain", <<234, 263>>, << >>, {"peaks", "noise_levels"},
          {"selected_peaks", "clustering_params"}, "clustering"),
    Block("dispatch", <<265, 274>>,
          <<Effect("chunked", "find_cluster_from_peaks")>>,
          {"selected_peaks", "clustering_params"}, {"labels", "peak_labels"},
          "clustering"),
    Block("plain", <<276, 291>>, << >>, {"labels", "peak_labels"},
          {"labeled_peaks", "unit_ids", "sorting"}, "clustering"),
    Block("plain", <<293, 314>>,
          <<Effect("chunked", "estimate_templates")>>,
          {"labeled_peaks", "unit_ids", "nbefore", "nafter"}, {"templates"},
          "clustering"),
    Block("plain", <<316, 339>>,
          <<Effect("chunked", "find_spikes_from_templates")>>,
          {"templates", "unit_ids"}, {"sorting"}, "clustering"),
    Block("plain", <<341, 347>>, << >>, {}, {"merging_params"}, "always"),
    Block("plain", <<349, 371>>,
          <<Effect("chunked", "final_cleaning_circus")>>,
          {"merging_params", "motion_folder", "recording_w", "sorting",
           "templates"},
          {"sorting"}, "merging"),
    Block("plain", <<373, 386>>,
          <<Effect("write", "sorting")>>, {"recording_w", "sorting"},
          {"sorting"}, "always") >>

Entries == {"circus", "random_projections", "sorter"}

\* Sequence s with the blocks at positions i and i + 1 exchanged.
Exchanged(s, i) ==
    [k \in DOMAIN s |->
        IF k = i THEN s[i + 1] ELSE IF k = i + 1 THEN s[i] ELSE s[k]]

\* The functions with circus.py lines 122-129 (params.json) placed after
\* the pipeline of lines 131-156.
BodyWritingParamsLate(e) ==
    CASE e = "circus" -> Exchanged(CircusBody, 7)
      [] e = "random_projections" -> RPBody
      [] e = "sorter" -> SorterBody

\* The statement blocks of the function called, in source order.
Body(e) ==
    CASE e = "circus" -> CircusBody
      [] e = "random_projections" -> RPBody
      [] e = "sorter" -> SorterBody

\* A Python dict as the set of its (key, value) pairs.
Get(d, key, default) ==
    IF \E kv \in d : kv[1] = key
    THEN (CHOOSE kv \in d : kv[1] = key)[2]
    ELSE default

\* The methods compute_sparsity accepts that the defaults of the two
\* clustering classes use ("ptp" in circus.py line 57, "snr" in
\* random_projections.py line 47).
SparsityMethods == {"ptp", "snr"}

\* params of main_function: the entries of _default_params the call-level
\* view depends on, each open to the caller.
ClusteringParams ==
    [ms_before : MsValues, ms_after : MsValues,
     waveforms : [ms_before : MsValues, ms_after : MsValues],
     sparsity : [method : SparsityMethods \cup {"unsupported"}]]

\* Spykingcircus2Sorter._default_params, lines 41 and 42.
default_merging == {<<"max_distance_um", 50>>}

default_clustering == {<<"legacy", TRUE>>}

\* params of _run_from_folder: given lists the keys the user set; a key the
\* user did not set has the value of _default_params.
SorterParams ==
    {p \in [general : [ms_before : MsValues, ms_after : MsValues],
            multi_units_only : BOOLEAN,
            given : SUBSET {"clustering", "merging"},
            clustering : {default_clustering, {<<"legacy", FALSE>>}, {}},
            merging : {default_merging, {}}] :
        /\ "clustering" \notin p.given => p.clustering = default_clustering
        /\ "merging" \notin p.given => p.merging = default_merging}

ParamsOf(e) == IF e = "sorter" THEN SorterParams ELSE ClusteringParams

\* The clustering variables while a call is followed from outside.
NoClustering ==
    /\ method = "none" /\ pc = "none" /\ peaks = << >> /\ peak_labels = << >>
    /\ nb_clusters = 0 /\ todo = << >> /\ local = << >> /\ iterations = << >>
    /\ labels = << >> /\ spikes = << >> /\ unit_ids = << >>
    /\ templates = << >> /\ removed = {} /\ dedup_in = << >>
    /\ stages = << >> /\ unit_index = << >> /\ sorter_unit_ids = << >>

InitCall ==
    /\ NoClustering
    /\ NoJobs
    /\ NoSecondDedup
    /\ NoRun
    /\ entry \in Entries
    /\ HAVE_HDBSCAN \in BOOLEAN
    /\ params \in ParamsOf(entry)
    /\ fs \in FsValues
    /\ cpc = 1
    /\ outcome = "running"
    /\ effects = << >>
    /\ defined = {}
    /\ nbefore = NotBound
    /\ nafter = NotBound
    /\ num_samples = {}
    /\ clustering_method = "none"

\* The block the call is about to execute.
Cur == Body(entry)[cpc]

\* Whether block b is on the path of this call: line 231 (multi_units_only)
\* and line 349 (len(merging_params) > 0; merging_params is
\* params["merging"].copy(), debug being off).
Runs(b) ==
    CASE b.when = "always" -> TRUE
      [] b.when = "multi_units_only" -> params.multi_units_only
      [] b.when = "clustering" -> ~params.multi_units_only
      [] b.when = "merging" -> Cardinality(params.merging) > 0

AtBlock(kinds) ==
    /\ entry \in Entries /\ outcome = "running"
    /\ cpc <= Len(Body(entry))
    /\ Runs(Cur)
    /\ Cur.kind \in kinds

\* The call ends with exception e raised in the current block, whose
\* effects up to the raise have happened.
Raise(e, effs) ==
    /\ outcome' = e
    /\ effects' = effects \o effs
    /\ UNCHANGED <<cpc, defined>>

\* The current block runs to its end: reading a local name that no block on
\* the path has bound raises UnboundLocalError.
Proceed ==
    IF Cur.reads \subseteq defined
    THEN /\ effects' = effects \o Cur.effects
         /\ defined' = defined \cup Cur.binds
         /\ cpc' = cpc + 1
         /\ outcome' = "running"
    ELSE Raise("UnboundLocalError", << >>)

\* "assert HAVE_HDBSCAN" with the assertion removed.
assert_nothing(have) == TRUE

\* circus.py line 71, random_projections.py line 64, spyking_circus2.py
\* line 100: whether "assert HAVE_HDBSCAN" passes.
assert_HAVE_HDBSCAN(have) == have

CallAssertHdbscan ==
    /\ AtBlock({"assert_hdbscan"})
    /\ IF assert_HAVE_HDBSCAN(HAVE_HDBSCAN)
       THEN Proceed
       ELSE Raise("AssertionError", << >>)
    /\ UNCHANGED <<entry, HAVE_HDBSCAN, params, fs, nbefore, nafter,
                   num_samples, clustering_method>>
    /\ UNCHANGED outsideCall

\* The millisecond window a window block converts: params["ms_before"] and
\* params["ms_after"] (circus.py 89-92, random_projections.py 71-72 and
\* 91-92), params["general"] (spyking_circus2.py 123-124, 186-187), or
\* params["waveforms"] (circus.py 188-189, random_projections.py 131-132).
WindowMs(kind) ==
    IF kind = "waveforms_window" THEN params.waveforms
    ELSE IF entry = "sorter" THEN params.general
    ELSE [ms_before |-> params.ms_before, ms_after |-> params.ms_after]

CallWindow ==
    /\ AtBlock({"window", "waveforms_window"})
    /\ Proceed
    /\ IF Cur.reads \subseteq defined
       THEN /\ nbefore' = SampleCount(WindowMs(Cur.kind).ms_before, fs)
            /\ nafter' = SampleCount(WindowMs(Cur.kind).ms_after, fs)
            /\ num_samples' = num_samples \cup {nbefore' + nafter'}
       ELSE UNCHANGED <<nbefore, nafter, num_samples>>
    /\ UNCHANGED <<entry, HAVE_HDBSCAN, params, fs, clustering_method>>
    /\ UNCHANGED outsideCall

\* circus.py 198-202, random_projections.py 164-167: compute_sparsity is
\* the first and only reader of params["sparsity"], and rejects a method it
\* does not know.
CallSparsity ==
    /\ AtBlock({"sparsity"})
    /\ IF params.sparsity.method \in SparsityMethods
       THEN Proceed
       ELSE Raise("compute_sparsity: unsupported method", Cur.effects)
    /\ UNCHANGED <<entry, HAVE_HDBSCAN, params, fs, nbefore, nafter,
                   num_samples, clustering_method>>
    /\ UNCHANGED outsideCall

\* spyking_circus2.py 265-274: legacy = clustering_params.get("legacy",
\* True) selects the method tag.
CallDispatch ==
    /\ AtBlock({"dispatch"})
    /\ Proceed
    /\ clustering_method' =
          IF ~(Cur.reads \subseteq defined) THEN clustering_method
          ELSE IF Get(params.clustering, "legacy", TRUE)
               THEN "circus" ELSE "random_projections"
    /\ UNCHANGED <<entry, HAVE_HDBSCAN, params, fs, nbefore, nafter,
                   num_samples>>
    /\ UNCHANGED outsideCall

\* A block whose outcome lies with code outside this repository:
\* TruncatedSVD.fit (circus.py 114), hdbscan.hdbscan outside a try
\* (random_projections.py 117), the attribute recording_w.unit_ids
\* (spyking_circus2.py 232).  It either raises or goes through.
CallExternal ==
    /\ AtBlock({"external"})
    /\ \E raises \in BOOLEAN :
          IF raises THEN Raise("raised by callee", Cur.effects) ELSE Proceed
    /\ UNCHANGED <<entry, HAVE_HDBSCAN, params, fs, nbefore, nafter,
                   num_samples, clustering_method>>
    /\ UNCHANGED outsideCall

\* Any other block.
CallPlain ==
    /\ AtBlock({"plain"})
    /\ Proceed
    /\ UNCHANGED <<entry, HAVE_HDBSCAN, params, fs, nbefore, nafter,
                   num_samples, clustering_method>>
    /\ UNCHANGED outsideCall

\* A block that is not on the path of this call.
CallSkip ==
    /\ entry \in Entries /\ outcome = "running"
    /\ cpc <= Len(Body(entry))
    /\ ~Runs(Cur)
    /\ cpc' = cpc + 1
    /\ UNCHANGED <<entry, HAVE_HDBSCAN, params, fs, outcome, effects, defined,
                   nbefore, nafter, num_samples, clustering_method>>
    /\ UNCHANGED outsideCall

\* circus.py 226, random_projections.py 189, spyking_circus2.py 386.
CallReturn ==
    /\ entry \in Entries /\ outcome = "running"
    /\ cpc = Len(Body(entry)) + 1
    /\ outcome' = "returned"
    /\ UNCHANGED <<entry, HAVE_HDBSCAN, params, fs, cpc, effects, defined,
                   nbefore, nafter, num_samples, clustering_method>>
    /\ UNCHANGED outsideCall

NextCall ==
    \/ CallAssertHdbscan
    \/ CallWindow
    \/ CallSparsity
    \/ CallDispatch
    \/ CallExternal
    \/ CallPlain
    \/ CallSkip
    \/ CallReturn

SpecCall == InitCall /\ [][NextCall]_vars

\* ================================ remove_duplicates_via_matching, twice
\* The call of circus.py 219-221 followed by a second call with the same
\* templates and the labels the first one returned.
\* The template sets CircusPrune can leave of the units 0..k-1: any
\* subsequence, every template kept with one active channel.
PrunedTemplates(k) ==
    UNION {{[p \in 1 .. Cardinality(S) |->
                [unit_id |-> SortedSeq(S)[p], ratio |-> r[p], nactive |-> 1]] :
              r \in [1 .. Cardinality(S) -> Ratios]} :
           S \in SUBSET (0 .. (k - 1))}

\* The states in which CircusClustering.main_function reaches line 219 when
\* all peaks are on channel 0 and hdbscan did not raise: the labels are the
\* hdbscan labelling l, the templates what pruning left of its k clusters.
InitDedupTwice ==
    /\ NoCall
    /\ NoJobs
    /\ NoSecondDedup
    /\ NoRun
    /\ method = "circus"
    /\ pc = "dedup"
    /\ \E n \in 1 .. MaxPeaksCircus :
         \E l \in Labellings(n) :
           LET k == Cardinality({l[i] : i \in {j \in 1 .. n : l[j] > -1}})
           IN  /\ peaks = [i \in 1 .. n |-> 0]
               /\ peak_labels = l
               /\ local = l
               /\ nb_clusters = k
               /\ iterations = <<[channel |-> 0, raised |-> FALSE,
                                  nb_before |-> 0, nb_after |-> k]>>
               /\ labels = np_arange(k)
               /\ spikes = Masked(l, {i \in 1 .. n : l[i] > -1})
               /\ unit_ids = np_arange(k)
               /\ templates \in PrunedTemplates(k)
               /\ removed = (0 .. (k - 1)) \ UnitIdsOf(templates)
    /\ todo = << >>
    /\ dedup_in = << >>
    /\ stages = <<"start", "features", "cluster", "estimate", "prune">>
    /\ unit_index = << >>
    /\ sorter_unit_ids = << >>

\* circus.py 219-221: the first application, the merges m of its matching
\* pass remembered.
DedupFirst ==
    /\ pc = "dedup" /\ first = << >>
    /\ dedup_in' = [templates |-> templates, peak_labels |-> peak_labels]
    /\ \E m \in MergeMaps(templates) :
         /\ merges' = m
         /\ first' = remove_duplicates_via_matching(templates, peak_labels, m)
    /\ labels' = first'.labels
    /\ peak_labels' = first'.peak_labels
    /\ pc' = "dedup again"
    /\ stages' = Append(stages, "dedup")
    /\ UNCHANGED <<method, peaks, nb_clusters, todo, local, iterations, spikes,
                   unit_ids, templates, removed, unit_index, sorter_unit_ids>>
    /\ UNCHANGED <<callVars, jobVars, runVars>>

\* The second application: same templates and parameters, hence the same
\* matching pass and the same merges, applied to the labels of the first.
DedupAgain ==
    /\ pc = "dedup again"
    /\ dedup_in' = [templates |-> templates, peak_labels |-> peak_labels]
    /\ LET second == remove_duplicates_via_matching(templates, peak_labels,
                                                    merges)
       IN  /\ labels' = second.labels
           /\ peak_labels' = second.peak_labels
    /\ pc' = "done"
    /\ stages' = Append(stages, "dedup")
    /\ UNCHANGED <<method, peaks, nb_clusters, todo, local, iterations, spikes,
                   unit_ids, templates, removed, unit_index, sorter_unit_ids>>
    /\ UNCHANGED <<callVars, jobVars, runVars, dedupVars>>

NextDedupTwice ==
    \/ DedupFirst
    \/ DedupAgain

SpecDedupTwice == InitDedupTwice /\ [][NextDedupTwice]_vars

\* ========================================================= run_sorter_jobs
\* launcher.py 36-186 (the same function is repeated in runsorter.py
\* 838-988).  A job is a kwargs dictionary for run_sorter; the sorting
\* run_sorter returns for job k is identified by k.
\* ------------------------------------------------------------------ bounds
\* Longest job_list.
MaxJobs == 3

\* launcher.py 24-33: _implemented_engine.
implemented_engine == {"loop", "joblib", "processpoolexecutor", "dask", "slurm"}

\* launcher.py 90-94: the engines that support return_output=True.
output_engines == {"loop", "joblib", "processpoolexecutor"}

\* The job lists a caller can pass: each job with or without an entry
\* "with_output" of its own.
JobLists ==
    UNION {[1 .. n -> {{}, {<<"with_output", TRUE>>},
                       {<<"with_output", FALSE>>}}] : n \in 0 .. MaxJobs}

\* A list as the value of out.
ListOf(s) == [none |-> FALSE, items |-> s]

\* What run_sorter(**kwargs) of job k comes to: it raises, or returns the
\* sorting of job k when with_output is set and None otherwise.
Result(k, with_output, raised) ==
    [job |-> k, sorting |-> with_output, raised |-> raised]

InitJobs ==
    /\ NoClustering
    /\ NoCall
    /\ NoSecondDedup
    /\ NoRun
    /\ job_list \in JobLists
    /\ engine \in implemented_engine \cup {"unknown"}
    /\ return_output \in BOOLEAN
    /\ jpc = "start"
    /\ jobs_out = None
    /\ futures = << >>
    /\ finished = {}
    /\ waited = 0
    /\ engine_kwargs \in {{}, {<<"client", "a client">>}}
    /\ ran = << >>

\* launcher.py 28, 84-87, 136: engine_kwargs["client"] after the defaults
\* of the engine have been updated with the argument.
client == Get(engine_kwargs, "client", "None")

\* launcher.py 82-101: the two assertions, out, and kwargs["with_output"]
\* of every job; 136-137: the dask engine asserts that it has a client.
JobsConfigure ==
    /\ jpc = "start"
    /\ IF engine \notin implemented_engine
          \/ (return_output /\ engine \notin output_engines)
       THEN /\ jpc' = "raised"
            /\ UNCHANGED <<job_list, jobs_out>>
       ELSE /\ job_list' = [k \in DOMAIN job_list |->
                               {<<"with_output", return_output>>}]
            /\ jobs_out' = IF return_output THEN ListOf(<< >>) ELSE None
            /\ jpc' = IF engine = "dask" /\ client = "None"
                      THEN "raised" ELSE "run"
    /\ UNCHANGED <<engine, return_output, futures, finished, waited,
                   engine_kwargs, ran>>
    /\ UNCHANGED outsideJobs

\* The record of job k being started with its current kwargs (with_output
\* defaults to True in run_sorter).
Started(k) == [job |-> k, with_output |-> Get(job_list[k], "with_output", TRUE)]

\* launcher.py 103-108, engine "loop": the next job is run to its end in
\* the calling process and its sorting appended.
JobsLoop ==
    /\ jpc = "run" /\ engine = "loop"
    /\ Len(futures) < Len(job_list)
    /\ LET k == Len(futures) + 1
       IN  /\ futures' = Append(futures, k)
           /\ ran' = Append(ran, Started(k))
           /\ \E raised \in BOOLEAN :
                /\ finished' = finished \cup
                                  {Result(k, Started(k).with_output, raised)}
                /\ IF raised
                   THEN jpc' = "raised" /\ UNCHANGED <<jobs_out, waited>>
                   ELSE /\ jobs_out' =
                              IF return_output
                              THEN ListOf(Append(jobs_out.items,
                                     Result(k, Started(k).with_output, FALSE)))
                              ELSE jobs_out
                        /\ waited' = waited + 1
                        /\ jpc' = "run"
    /\ UNCHANGED <<job_list, engine, return_output, engine_kwargs>>
    /\ UNCHANGED outsideJobs

\* launcher.py 115 (delayed(run_sorter)(**kwargs) for kwargs in job_list),
\* 127-129 (executor.submit), 140-142 (client.submit), 158-184 (sbatch of
\* the job's script): the next job is handed to the engine.
JobsSubmit ==
    /\ jpc = "run"
    /\ engine \in {"joblib", "processpoolexecutor", "dask", "slurm"}
    /\ Len(futures) < Len(job_list)
    /\ futures' = Append(futures, Len(futures) + 1)
    /\ ran' = Append(ran, Started(Len(futures) + 1))
    /\ UNCHANGED <<job_list, engine, return_output, jpc, jobs_out, finished,
                   waited, engine_kwargs>>
    /\ UNCHANGED outsideJobs

Range_futures == {futures[i] : i \in DOMAIN futures}

FinishedJobs == {r.job : r \in finished}

\* A worker of the engine ends a submitted job, in any order: run_sorter
\* returns or raises.
JobFinish ==
    /\ jpc \in {"run", "returned", "raised"}
    /\ engine \in {"joblib", "processpoolexecutor", "dask", "slurm"}
    /\ \E k \in Range_futures \ FinishedJobs :
         \E raised \in BOOLEAN :
            finished' = finished \cup
                           {Result(k, ran[k].with_output, raised)}
    /\ UNCHANGED <<job_list, engine, return_output, jpc, jobs_out, futures,
                   waited, engine_kwargs, ran>>
    /\ UNCHANGED outsideJobs

\* The futures taken in the order in which their jobs finish.
AsCompleted(fs_, n, done) == {k \in done : \A i \in 1 .. n : fs_[i] # k}

\* launcher.py 130-131 (for futur in futures: futur.result()) and 144-145:
\* the job whose result is waited for next, n results having been taken:
\* the next one in submission order.
Awaited(fs_, n, done) == {fs_[n + 1]}

\* launcher.py 130-133 and 144-145: the result of the awaited job is there;
\* it is appended (processpoolexecutor with return_output) or re-raised.
JobsTakeResult ==
    /\ jpc = "run" /\ engine \in {"processpoolexecutor", "dask"}
    /\ Len(futures) = Len(job_list) /\ waited < Len(futures)
    /\ \E k \in Awaited(futures, waited, FinishedJobs) :
         \E r \in finished :
            /\ r.job = k
            /\ IF r.raised
               THEN jpc' = "raised" /\ UNCHANGED <<jobs_out, waited>>
               ELSE /\ jobs_out' =
                          IF return_output /\ engine = "processpoolexecutor"
                          THEN ListOf(Append(jobs_out.items, r))
                          ELSE jobs_out
                    /\ waited' = waited + 1
                    /\ jpc' = "run"
    /\ UNCHANGED <<job_list, engine, return_output, futures, finished,
                   engine_kwargs, ran>>
    /\ UNCHANGED outsideJobs

\* launcher.py 115-117: Parallel(...)(...) returns the results of all jobs
\* as a list in the order of its input, or re-raises; out.extend(sortings).
JobsParallelDone ==
    /\ jpc = "run" /\ engine = "joblib"
    /\ Len(futures) = Len(job_list) /\ waited < Len(futures)
    /\ FinishedJobs = Range_futures
    /\ IF \E r \in finished : r.raised
       THEN jpc' = "raised" /\ UNCHANGED <<jobs_out, waited>>
       ELSE /\ jobs_out' =
                  IF return_output
                  THEN ListOf(jobs_out.items \o
                              [i \in DOMAIN futures |->
                                  CHOOSE r \in finished : r.job = futures[i]])
                  ELSE jobs_out
            /\ waited' = Len(futures)
            /\ jpc' = "run"
    /\ UNCHANGED <<job_list, engine, return_output, futures, finished,
                   engine_kwargs, ran>>
    /\ UNCHANGED outsideJobs

\* An engine whose branch takes no result.
waits_for_nothing(e) == FALSE

\* launcher.py 103-145 against 147-184: the branches of loop, joblib,
\* processpoolexecutor and dask take the result of every job; the branch of
\* slurm ends with the last sbatch.
waits_for_results(e) == e # "slurm"

\* launcher.py 186: return out, once the engine's branch is through.
JobsReturn ==
    /\ jpc = "run"
    /\ Len(futures) = Len(job_list)
    /\ waits_for_results(engine) => waited = Len(job_list)
    /\ jpc' = "returned"
    /\ UNCHANGED <<job_list, engine, return_output, jobs_out, futures,
                   finished, waited, engine_kwargs, ran>>
    /\ UNCHANGED outsideJobs

NextJobs ==
    \/ JobsConfigure
    \/ JobsLoop
    \/ JobsSubmit
    \/ JobFinish
    \/ JobsTakeResult
    \/ JobsParallelDone
    \/ JobsReturn

SpecJobs == InitJobs /\ [][NextJobs]_vars

\* ============================================================ runsorter.py
\* run_sorter (123-177), run_one_sorter (238-318), run_sorter_local
\* (324-398) and run_sorter_container (401-783), each followed from its call
\* to its return or raise.  SorterClass, the container client and the file
\* system are outside: their calls succeed or raise, whichever.
RunEntries == {"run_sorter", "run_one_sorter", "run_sorter_local",
               "run_sorter_container"}

\* The arguments that decide the path taken; recording is given by its type.
RunArgs ==
    [recording : {"BaseRecording", "dict", "list"},
     with_output : BOOLEAN,
     raise_error : BOOLEAN,
     delete_output_folder : BOOLEAN,
     delete_container_files : BOOLEAN,
     docker_image : BOOLEAN,
     singularity_image : BOOLEAN]

InitRun ==
    /\ NoClustering
    /\ NoCall
    /\ NoSecondDedup
    /\ NoJobs
    /\ fn \in RunEntries
    /\ rargs \in RunArgs
    /\ rpc = fn
    /\ ri = 1
    /\ mode \in IF fn = "run_sorter_container"
                THEN {"docker", "singularity"} ELSE {"none"}
    /\ calls = << >>
    /\ sorting = "unbound"
    /\ sorter_output \in BOOLEAN
    /\ observed = NotObserved
    /\ routcome = "running"

\* The function raises e.
RunRaise(e) == routcome' = e /\ rpc' = "done" /\ ri' = ri

\* Python's a ** b for operands of the given types: defined for numbers
\* (bool is one); anything else is a TypeError.
power_raises(left, right) ==
    ~(left \in {"bool", "int", "float"} /\ right \in {"bool", "int", "float"})

\* runsorter.py 146-177.  Line 167 reads
\* delete_container_files=delete_container_files**sorter_params: the power
\* of a bool by the dict of the keyword arguments.  Were common_kwargs
\* built, 171 would pass recording positionally as sorter_name next to the
\* keyword sorter_name, and the dict branch would reach
\* dict_of_recordings.values[0] at 199.
RunSorter ==
    /\ rpc = "run_sorter" /\ routcome = "running"
    /\ IF power_raises("bool", "dict")
       THEN RunRaise("TypeError: unsupported operand type(s) for **")
       ELSE IF rargs.recording = "BaseRecording"
       THEN RunRaise("TypeError: multiple values for argument 'sorter_name'")
       ELSE IF rargs.recording = "dict"
       THEN RunRaise("TypeError: 'builtin_function_or_method' object is not subscriptable")
       ELSE RunRaise("TypeError: only accepts recording or a dict of recordings")
    /\ UNCHANGED <<fn, rargs, mode, calls, sorting, sorter_output, observed>>
    /\ UNCHANGED outsideRun

\* runsorter.py 262-318: the container checks, then run_sorter_container or
\* run_sorter_local with the common arguments.
RunOneSorter ==
    /\ rpc = "run_one_sorter" /\ routcome = "running"
    /\ calls' = Append(calls, "run_one_sorter")
    /\ IF rargs.docker_image \/ rargs.singularity_image
       THEN \E installed \in BOOLEAN :
              IF rargs.docker_image /\ rargs.singularity_image
              THEN RunRaise("AssertionError") /\ mode' = "docker"
              ELSE /\ mode' = IF rargs.docker_image THEN "docker"
                              ELSE "singularity"
                   /\ IF installed
                      THEN rpc' = "run_sorter_container" /\ ri' = 1
                                /\ routcome' = routcome
                      ELSE RunRaise("RuntimeError")
       ELSE /\ rpc' = "run_sorter_local" /\ ri' = 1
            /\ UNCHANGED <<mode, routcome>>
    /\ UNCHANGED <<fn, rargs, sorting, sorter_output, observed>>
    /\ UNCHANGED outsideRun

\* run_sorter_local with the output folder removed before the copy is made.
LocalStepsRemovingFirst ==
    <<"check recording", "initialize_folder", "set_params_to_folder",
      "setup_recording", "run_from_folder", "get_result_from_folder",
      "rmtree", "from_sorting", "return">>

\* runsorter.py 362-398: the steps of run_sorter_local in source order.
LocalSteps ==
    <<"check recording", "initialize_folder", "set_params_to_folder",
      "setup_recording", "run_from_folder", "get_result_from_folder",
      "from_sorting", "rmtree", "return">>

\* runsorter.py 468-783: the steps of run_sorter_container in source order.
ContainerSteps ==
    <<"prepare", "run in container", "clean", "result", "rmtree", "return">>

StepsOf(f) == IF f = "run_sorter_local" THEN LocalSteps ELSE ContainerSteps

\* Function f is at one of the given steps.
AtStep(f, steps) ==
    /\ rpc = f /\ routcome = "running"
    /\ ri \in DOMAIN StepsOf(f)
    /\ StepsOf(f)[ri] \in steps

Step == StepsOf(rpc)[ri]

\* The next step of the same function.
RunProceed == ri' = ri + 1 /\ rpc' = rpc /\ routcome' = routcome

\* runsorter.py 362-370.
RunLocalCheck ==
    /\ AtStep("run_sorter_local", {"check recording"})
    /\ IF rargs.recording = "list"
       THEN RunRaise("Exception")
       ELSE RunProceed
    /\ UNCHANGED <<fn, rargs, mode, calls, sorting, sorter_output, observed>>
    /\ UNCHANGED outsideRun

\* runsorter.py 372-378: initialize_folder (which makes the folder and its
\* sorter_output), set_params_to_folder, setup_recording.
RunLocalSetup ==
    /\ AtStep("run_sorter_local", {"initialize_folder", "set_params_to_folder",
                                   "setup_recording"})
    /\ calls' = Append(calls, Step)
    /\ \E raises \in BOOLEAN :
         IF raises
         THEN RunRaise("raised by SorterClass") /\ UNCHANGED sorter_output
         ELSE /\ RunProceed
              /\ sorter_output' = IF Step = "initialize_folder" THEN TRUE
                                  ELSE sorter_output
    /\ UNCHANGED <<fn, rargs, mode, sorting, observed>>
    /\ UNCHANGED outsideRun

\* runsorter.py 380: run_from_folder(folder, raise_error, verbose) raises
\* when the sorter fails and raise_error is set, and logs the error
\* otherwise (353-355).
RunLocalRunFromFolder ==
    /\ AtStep("run_sorter_local", {"run_from_folder"})
    /\ calls' = Append(calls, Step)
    /\ \E failed \in BOOLEAN :
         /\ observed' = [observed EXCEPT !.log = IF failed THEN "error" ELSE "ok"]
         /\ IF failed /\ rargs.raise_error
            THEN RunRaise("SpikeSortingError")
            ELSE RunProceed
    /\ UNCHANGED <<fn, rargs, mode, sorting, sorter_output>>
    /\ UNCHANGED outsideRun

\* runsorter.py 381-384.
RunLocalGetResult ==
    /\ AtStep("run_sorter_local", {"get_result_from_folder"})
    /\ IF rargs.with_output
       THEN /\ calls' = Append(calls, Step)
            /\ \E raises \in BOOLEAN :
                 IF raises \/ ~sorter_output
                 THEN RunRaise("raised by SorterClass") /\ UNCHANGED sorting
                 ELSE RunProceed /\ sorting' = "on sorter_output"
       ELSE /\ sorting' = "None"
            /\ RunProceed
            /\ UNCHANGED calls
    /\ UNCHANGED <<fn, rargs, mode, sorter_output, observed>>
    /\ UNCHANGED outsideRun

\* runsorter.py 386-395: NumpySorting.from_sorting(sorting,
\* copy_spike_vector=True) reads the sorting's data into memory.
RunLocalCopy ==
    /\ AtStep("run_sorter_local", {"from_sorting"})
    /\ IF rargs.delete_output_folder /\ rargs.with_output /\ sorting # "None"
       THEN /\ calls' = Append(calls, Step)
            /\ IF sorting = "on sorter_output" /\ ~sorter_output
               THEN RunRaise("raised by from_sorting") /\ UNCHANGED sorting
               ELSE RunProceed /\ sorting' = "in memory"
       ELSE RunProceed /\ UNCHANGED <<calls, sorting>>
    /\ UNCHANGED <<fn, rargs, mode, sorter_output, observed>>
    /\ UNCHANGED outsideRun

\* runsorter.py 385-386, 396 and 779-781: shutil.rmtree(sorter_output_folder)
\* without ignore_errors.
RunRmtree ==
    /\ AtStep(rpc, {"rmtree"})
    /\ IF rargs.delete_output_folder
       THEN /\ calls' = Append(calls, Step)
            /\ IF sorter_output
               THEN RunProceed /\ sorter_output' = FALSE
               ELSE RunRaise("FileNotFoundError") /\ UNCHANGED sorter_output
       ELSE RunProceed /\ UNCHANGED <<calls, sorter_output>>
    /\ UNCHANGED <<fn, rargs, mode, sorting, observed>>
    /\ UNCHANGED outsideRun

\* runsorter.py 398 and 783: return sorting.
RunReturn ==
    /\ AtStep(rpc, {"return"})
    /\ routcome' = "returned"
    /\ rpc' = "done"
    /\ UNCHANGED <<fn, rargs, ri, mode, calls, sorting, sorter_output, observed>>
    /\ UNCHANGED outsideRun

\* runsorter.py 468-629: the assertions on installation_mode and folder
\* (468, 476), the default image (485-489), the files for the container
\* (505-557, RuntimeError for a recording that cannot be serialized), the
\* volumes and the GPU requirements (593-621).
RunContainerPrepare ==
    /\ AtStep("run_sorter_container", {"prepare"})
    /\ calls' = Append(calls, Step)
    /\ \E problem \in {"none", "AssertionError", "ValueError", "RuntimeError",
                       "NotImplementedError"} :
         IF problem = "none" THEN RunProceed ELSE RunRaise(problem)
    /\ UNCHANGED <<fn, rargs, mode, sorting, sorter_output, observed>>
    /\ UNCHANGED outsideRun

\* runsorter.py 630-742: the container is started, spikeinterface and the
\* extra requirements are installed (712 runs cmd, unbound under
\* installation_mode "no-install"), the script is run, the folder chowned,
\* the container stopped.  The run leaves a sorter_output folder or not.
RunInContainer ==
    /\ AtStep("run_sorter_container", {"run in container"})
    /\ calls' = Append(calls, Step)
    /\ \E problem \in {"none", "UnboundLocalError", "raised by container_client"} :
         IF problem = "none"
         THEN RunProceed /\ sorter_output' \in BOOLEAN
         ELSE RunRaise(problem) /\ UNCHANGED sorter_output
    /\ UNCHANGED <<fn, rargs, mode, sorting, observed>>
    /\ UNCHANGED outsideRun

\* runsorter.py 744-753.
RunContainerClean ==
    /\ AtStep("run_sorter_container", {"clean"})
    /\ calls' = IF rargs.delete_container_files THEN Append(calls, Step)
                ELSE calls
    /\ RunProceed
    /\ UNCHANGED <<fn, rargs, mode, sorting, sorter_output, observed>>
    /\ UNCHANGED outsideRun

\* What the container run can have left: the log file, whether
\* get_result_from_folder(folder) gives a sorting, and what
\* load(in_container_sorting_folder) does.
ContainerRuns ==
    [log : {"missing", "error", "ok"},
     from_folder : {"sorting", "raises"},
     from_container : {"sorting", "FileNotFoundError", "raises"}]

\* runsorter.py 755-777: run_error from the log file; raise on run_error
\* with raise_error; otherwise, with with_output, the sorting is taken from
\* the sorter folder, else from in_container_sorting, and where that is not
\* found line 777 builds a SpikeSortingError without raising it.
RunContainerResult ==
    /\ AtStep("run_sorter_container", {"result"})
    /\ calls' = Append(calls, Step)
    /\ \E o \in ContainerRuns :
         /\ o.from_folder = "sorting" => sorter_output
         /\ observed' = o
         /\ LET run_error == o.log # "ok"
            IN  IF run_error
                THEN /\ sorting' = "None"
                     /\ IF rargs.raise_error
                        THEN RunRaise("SpikeSortingError")
                        ELSE RunProceed
                ELSE IF ~rargs.with_output
                THEN sorting' = "None" /\ RunProceed
                ELSE IF o.from_folder = "sorting"
                THEN sorting' = "on sorter_output" /\ RunProceed
                ELSE IF o.from_container = "sorting"
                THEN sorting' = "on in_container_sorting" /\ RunProceed
                ELSE IF o.from_container = "FileNotFoundError"
                THEN sorting' = "None" /\ RunProceed
                ELSE sorting' = "None" /\ RunRaise("raised by load")
    /\ UNCHANGED <<fn, rargs, mode, sorter_output>>
    /\ UNCHANGED outsideRun

NextRun ==
    \/ RunSorter
    \/ RunOneSorter
    \/ RunLocalCheck
    \/ RunLocalSetup
    \/ RunLocalRunFromFolder
    \/ RunLocalGetResult
    \/ RunLocalCopy
    \/ RunRmtree
    \/ RunReturn
    \/ RunContainerPrepare
    \/ RunInContainer
    \/ RunContainerClean
    \/ RunContainerResult

SpecRun == InitRun /\ [][NextRun]_vars

\* ------------------------------------------------------------ properties
Returned == pc \in {"done", "sorted"}

C2_CircusNoDanglingAfterRemoveEmpty ==
    (method = "circus" /\ dedup_in # << >>) =>
        \A i \in 1 .. Len(dedup_in.peak_labels) :
            dedup_in.peak_labels[i] \notin removed

\* C3: in random_projections, the peaks the pruning step resets to -1 are
\* exactly the peaks whose label is the id of a removed unit.  local holds
\* the labels before pruning (the hdbscan output), dedup_in.peak_labels the
\* labels after it.
C3_RPResetExactlyRemoved ==
    (method = "random_projections" /\ dedup_in # << >>) =>
        \A i \in 1 .. Len(peaks) :
            (local[i] \in removed) <=>
                (local[i] # -1 /\ dedup_in.peak_labels[i] = -1)

\* C4: in circus, when hdbscan raised for a channel, every peak of that
\* channel leaves the clustering loop with label -1, the iteration
\* allocated no cluster index, and the loop went on over every channel.
C4_RaisedChannelIsNoise ==
    (method = "circus" /\ pc = "spikes") =>
        /\ Len(iterations) = Cardinality(Range(peaks))
        /\ \A k \in 1 .. Len(iterations) :
              iterations[k].raised =>
                 /\ iterations[k].nb_after = iterations[k].nb_before
                 /\ \A i \in 1 .. Len(peaks) :
                       peaks[i] = iterations[k].channel => peak_labels[i] = -1

\* C5: after the circus loop, two peaks of different channels never share a
\* non-noise label, and two peaks of one channel share a non-noise global
\* label exactly when hdbscan gave them the same local non-noise label.
C5_GlobalOffsetsSeparateChannels ==
    (method = "circus" /\ pc = "spikes") =>
        \A i, j \in 1 .. Len(peaks) :
            LET shared == peak_labels[i] = peak_labels[j] /\ peak_labels[i] >= 0
            IN  IF peaks[i] # peaks[j]
                THEN ~shared
                ELSE shared <=> (local[i] = local[j] /\ local[i] >= 0)

\* C6: for both methods, no template passed to
\* remove_duplicates_via_matching has an empty sparsity mask or a
\* best-channel ratio below noise_threshold.
C6_OnlyValidatedTemplatesMatched ==
    dedup_in # << >> =>
        \A p \in 1 .. Len(dedup_in.templates) :
            /\ dedup_in.templates[p].nactive > 0
            /\ ~(dedup_in.templates[p].ratio < noise_threshold)

\* Rank of a stage in the order the claim states.
StageRank(st) ==
    CASE st = "start" -> 0
      [] st = "features" -> 1
      [] st = "cluster" -> 2
      [] st = "estimate" -> 3
      [] st = "prune" -> 4
      [] st = "dedup" -> 5

\* C7: the stages run in the order feature extraction, density clustering,
\* template estimation, sparsity/pruning, deduplication, none re-entered
\* once left (only the per-channel clustering loop repeats its stage);
\* pruning has completed when remove_duplicates_via_matching is invoked, it
\* receives exactly the pruned template set, and a call that returns has
\* run all five stages.
C7_StagesInOrder ==
    /\ \A i \in 1 .. (Len(stages) - 1) :
          \/ StageRank(stages[i]) < StageRank(stages[i + 1])
          \/ stages[i] = "cluster" /\ stages[i + 1] = "cluster"
    /\ dedup_in # << >> =>
          /\ "prune" \in Range(stages)
          /\ UnitIdsOf(dedup_in.templates) = Range(unit_ids) \ removed
    /\ Returned =>
          {"features", "cluster", "estimate", "prune", "dedup"} \subseteq Range(stages)

\* Witness of C7: a call returned after pruning removed a unit and
\* deduplication ran on what was left.
C7_Witness ==
    /\ pc = "done" /\ removed # {} /\ dedup_in # << >>
    /\ dedup_in.templates # << >>

C9_EmptyPeaksReturnEmpty ==
    Len(peaks) = 0 =>
        /\ pc # "raised"
        /\ Returned => (labels = << >> /\ peak_labels = << >>)

\* C10: when no cluster survives (hdbscan labelled every peak noise, or
\* pruning removed every unit), main_function returns empty labels and a
\* peak_labels array of -1 only.
C10_NoSurvivorIsEmptyResult ==
    (Returned /\ dedup_in.templates = << >>) =>
        /\ labels = << >>
        /\ \A i \in 1 .. Len(peak_labels) : peak_labels[i] = -1

\* --------------------------------------------- properties of one call
Ended == entry \in Entries /\ outcome # "running"

\* Positions in effects of the effects of the given kinds.
EffectsOfKind(kinds) == {i \in DOMAIN effects : effects[i].kind \in kinds}

\* Positions in effects of the named calls or files.
EffectsNamed(names) == {i \in DOMAIN effects : effects[i].what \in names}

\* C11: if hdbscan cannot be imported, CircusClustering.main_function,
\* RandomProjectionClustering.main_function and _run_from_folder raise
\* before any folder is created, the recording is loaded or read, or chunked
\* work is started, and no clustering of any kind is run.
C11_MissingHdbscanFailsFast ==
    (entry \in Entries /\ ~HAVE_HDBSCAN) =>
        /\ effects = << >>
        /\ defined = {}
        /\ cpc = 1
        /\ outcome \in {"running", "AssertionError"}

\* Witness of C11: the sorter was run without hdbscan and has raised.
C11_Witness ==
    entry = "sorter" /\ ~HAVE_HDBSCAN /\ outcome = "AssertionError"

\* C12: when an unsupported sparsity method makes the clustering call
\* raise, no feature-extraction pipeline, no clustering and no template
\* estimation has been run, nor any other chunked work.
C12_InvalidSparsityFailsFast ==
    outcome = "compute_sparsity: unsupported method" =>
        /\ EffectsOfKind({"chunked", "cluster"}) = {}
        /\ EffectsNamed({"run_node_pipeline", "hdbscan",
                         "estimate_templates"}) = {}

\* The kind of the last window block the call has executed.
LastWindow ==
    Body(entry)[MaxOf({i \in 1 .. (cpc - 1) :
                          Body(entry)[i].kind \in
                              {"window", "waveforms_window"}})].kind

\* C15: whenever nbefore and nafter are bound, in either clustering method
\* or the sorter, they equal round(ms * fs / 1000) of the millisecond
\* parameters they were computed from.
C15_SampleCountsAreRounded ==
    (entry \in Entries /\ nbefore # NotBound) =>
        /\ nbefore = round(WindowMs(LastWindow).ms_before * fs, MsDen)
        /\ nafter = round(WindowMs(LastWindow).ms_after * fs, MsDen)

\* C16: within one call of main_function, of either method, nbefore +
\* nafter takes a single value from the start of the call to its return.
C16_SingleWindowPerCall ==
    entry \in {"circus", "random_projections"} =>
        Cardinality(num_samples) <= 1

C18_DefaultIsRandomProjections ==
    (entry = "sorter" /\ clustering_method # "none") =>
        /\ "clustering" \notin params.given =>
              clustering_method = "random_projections"
        /\ clustering_method = "circus" =>
              /\ "clustering" \in params.given
              /\ <<"legacy", TRUE>> \in params.clustering

\* C19: with multi_units_only (and hdbscan installed) the sorter runs no
\* clustering, template estimation or template matching, and under the
\* default merging parameters a call that ends without a callee raising
\* has returned after the final save.
C19_MultiUnitsOnlyReturns ==
    (entry = "sorter" /\ params.multi_units_only /\ HAVE_HDBSCAN) =>
        /\ EffectsNamed({"find_cluster_from_peaks", "estimate_templates",
                         "find_spikes_from_templates"}) = {}
        /\ ("merging" \notin params.given
                /\ outcome \notin {"running", "raised by callee"}) =>
              /\ outcome = "returned"
              /\ EffectsNamed({"sorting"}) # {}

C20_OneSortingPerJobInOrder ==
    /\ \A i \in DOMAIN ran : ran[i].with_output = return_output
    /\ jpc = "returned" =>
          /\ ran = [k \in DOMAIN job_list |->
                       [job |-> k, with_output |-> return_output]]
          /\ IF return_output
             THEN /\ engine \in output_engines
                  /\ jobs_out = ListOf([k \in DOMAIN job_list |->
                                           Result(k, TRUE, FALSE)])
             ELSE jobs_out = None

\* Witness of C20: processpoolexecutor has returned the list of the sortings
\* of a longest job_list.
C20_Witness ==
    /\ jpc = "returned" /\ engine = "processpoolexecutor" /\ return_output
    /\ Len(job_list) = MaxJobs
    /\ Len(jobs_out.items) = MaxJobs

\* C21: run_sorter_jobs returns only after every job has finished for the
\* engines loop, joblib, processpoolexecutor and dask; for slurm it has
\* submitted one script per job when it returns, returns None, and its
\* return waits for no job: it can return as soon as the last script is
\* submitted, whichever jobs have finished.
C21_BlockingEnginesWaitSlurmDoesNot ==
    /\ (jpc = "returned" /\ engine # "slurm") =>
          FinishedJobs = DOMAIN job_list
    /\ (jpc = "returned" /\ engine = "slurm") =>
          /\ futures = [k \in DOMAIN job_list |-> k]
          /\ jobs_out = None
    /\ (jpc = "run" /\ engine = "slurm" /\ Len(futures) = Len(job_list)) =>
          ENABLED JobsReturn

\* Witness of C21: slurm has returned with a longest job_list submitted and
\* no job finished.
C21_Witness ==
    /\ jpc = "returned" /\ engine = "slurm"
    /\ Len(job_list) = MaxJobs
    /\ finished = {}

\* The labels of the peaks with peak_labels > -1, in peak order: the rows of
\* labeled_peaks (spyking_circus2.py 277-281).
LabelsOfLabeledPeaks ==
    Masked(peak_labels, {i \in DOMAIN peak_labels : peak_labels[i] > -1})

ClustersFound ==
    IF method = "circus" THEN nb_clusters
    ELSE Cardinality({l \in Range(local) : l >= 0})

\* C26: when the templates are estimated, the non-noise labels present in
\* peak_labels are exactly 0..K-1, K being the number of clusters found and
\* the length of unit_ids; row i of the template array is unit i and has the
\* spikes of the peaks labelled i, at least one.  This holds whatever each
\* channel's clustering gave (clusters, noise only, or a raise).
C26_LabelsAreZeroToKMinusOne ==
    pc \in {"estimate", "prune"} =>
        LET K == Len(unit_ids)
        IN  /\ K = ClustersFound
            /\ {l \in Range(peak_labels) : l >= 0} = 0 .. (K - 1)
            /\ unit_ids = np_arange(K)
            /\ spikes = LabelsOfLabeledPeaks
            /\ pc = "prune" =>
                  /\ Len(templates) = K
                  /\ \A i \in 1 .. K : templates[i].unit_id = i - 1

\* Witness of C26: circus estimated templates after a loop over two
\* channels in which one channel's clustering raised and the other found
\* clusters and left a peak as noise.
C26_Witness ==
    /\ method = "circus" /\ pc = "prune"
    /\ Len(iterations) = 2
    /\ \E k \in DOMAIN iterations : iterations[k].raised
    /\ \E k \in DOMAIN iterations :
          ~iterations[k].raised /\ iterations[k].nb_after > iterations[k].nb_before
    /\ \E i \in DOMAIN peak_labels : peak_labels[i] = -1
    /\ Len(templates) >= 2

\* ------------------------------------------------ properties of runsorter.py
\* The call went through the result step of run_sorter_container.
ContainerResultSeen == "result" \in Range(calls)

\* The container run gave no result: the log file is missing or reports an
\* error, or neither the sorter folder nor in_container_sorting gives a
\* sorting.
ResultNotObtained ==
    \/ observed.log # "ok"
    \/ /\ rargs.with_output
       /\ observed.from_folder # "sorting"
       /\ observed.from_container # "sorting"

\* C22: run_sorter_container with raise_error=True ends with
\* SpikeSortingError whenever the sorting in the container failed or, with
\* with_output=True, no sorting could be loaded; with raise_error=True and
\* with_output=True it never returns None.
C22_ContainerRaisesOnFailure ==
    (rpc = "done" /\ ContainerResultSeen /\ rargs.raise_error) =>
        /\ ResultNotObtained => routcome = "SpikeSortingError"
        /\ (routcome = "returned" /\ rargs.with_output) => sorting # "None"

\* The calls of the folder lifecycle among the calls made.
LifecycleCalls ==
    SelectSeq(calls, LAMBDA c : c \in {"initialize_folder",
        "set_params_to_folder", "setup_recording", "run_from_folder",
        "get_result_from_folder"})

\* The lifecycle run_sorter_local goes through for the given with_output.
Lifecycle(with_output) ==
    <<"initialize_folder", "set_params_to_folder", "setup_recording",
      "run_from_folder">> \o
    (IF with_output THEN <<"get_result_from_folder">> ELSE << >>)

IsPrefix(s, t) == Len(s) <= Len(t) /\ \A i \in DOMAIN s : s[i] = t[i]

\* C23: run_sorter_local makes the lifecycle calls in the order
\* initialize_folder, set_params_to_folder, setup_recording,
\* run_from_folder, get_result_from_folder (the last with with_output), all
\* of them when it returns; the copy of the sorting is made before
\* sorter_output is removed, the sorting held never has its data in a
\* removed sorter_output, and with delete_output_folder and with_output the
\* sorting returned is the in-memory copy.
C23_LocalLifecycleInOrder ==
    (rargs # << >> /\ ~ContainerResultSeen) =>
        /\ IsPrefix(LifecycleCalls, Lifecycle(rargs.with_output))
        /\ \A i, j \in DOMAIN calls :
              (calls[i] = "from_sorting" /\ calls[j] = "rmtree") => i < j
        /\ sorting = "on sorter_output" => sorter_output
        /\ (routcome = "returned" /\ mode = "none") =>
              /\ LifecycleCalls = Lifecycle(rargs.with_output)
              /\ (rargs.delete_output_folder /\ rargs.with_output) =>
                    /\ sorting = "in memory"
                    /\ ~sorter_output
                    /\ "from_sorting" \in Range(calls)

\* Witness of C23: run_sorter_local returned the in-memory copy after having
\* removed sorter_output.
C23_Witness ==
    /\ fn = "run_sorter_local" /\ routcome = "returned"
    /\ rargs.delete_output_folder /\ rargs.with_output
    /\ sorting = "in memory" /\ ~sorter_output
    /\ calls[Len(calls)] = "rmtree"

\* C24: run_sorter with a BaseRecording calls run_one_sorter exactly once
\* and ends as it does; with a dict of recordings it returns what
\* run_sorter_jobs returns; with anything else it raises the TypeError of
\* line 177.
C24_RunSorterDispatches ==
    (fn = "run_sorter" /\ rpc = "done") =>
        /\ rargs.recording = "BaseRecording" =>
              Len(SelectSeq(calls, LAMBDA c : c = "run_one_sorter")) = 1
        /\ rargs.recording = "dict" => "run_sorter_jobs" \in Range(calls)
        /\ rargs.recording \notin {"BaseRecording", "dict"} =>
              routcome = "TypeError: only accepts recording or a dict of recordings"

=============================================================================
